---- MODULE Spec2Model ----
(***************************************************************************)
(* Model of memsql_top/DatabasePoller.py: the plan-cache snapshot fetcher  *)
(* (GetPlanCache), the diff/normalize engine (DiffPlanCache,               *)
(* NormalizeDiffPlanCacheEntry) and the poll cycle (DatabasePoller.poll).  *)
(*                                                                         *)
(* Python floats are modelled as exact rationals [num, den] in lowest      *)
(* terms with den > 0.  The value [num |-> 0, den |-> 0] stands for a      *)
(* division that raised ZeroDivisionError.                                 *)
(***************************************************************************)
EXTENDS Integers, Sequences, FiniteSets, TLC

VARIABLES
    update_interval,   \* self.update_interval; the interval argument of DiffPlanCache
    plancache,         \* self.plancache, the retained snapshot
    old_plancache,     \* old_plancache argument of the latest DiffPlanCache call
    new_plancache,     \* new_plancache of the latest cycle / DiffPlanCache call
    diff_plancache,    \* outcome of the latest DiffPlanCache call
    normalize_calls,   \* arguments NormalizeDiffPlanCacheEntry was called with
    trace,             \* side effects of the latest poll cycle, in program order
    error,             \* exception that ended the latest poll cycle, or "none"
    tsm_row,           \* tsm_row of the latest poll cycle, if conn.get returned one
    alarms,            \* invocations of poll the event loop holds scheduled
    last_fetched,      \* snapshot of the most recent GetPlanCache call that returned
    query_rows,        \* rows handed to GetPlanCache when it is applied on its own
    age,               \* history: polls that kept the retained snapshot (capped)
    elapsed,           \* history: least time from the fetch of old to that of new
    reported,          \* history: per plan, commit deltas reported since construction
    base,              \* history: per plan, commits in the constructor's snapshot
    steady             \* history: per plan, present and not decreasing in every cycle

cycleVars == <<update_interval, plancache, old_plancache, new_plancache,
               diff_plancache, normalize_calls, trace, error, tsm_row, alarms,
               last_fetched>>

clockVars == <<age, elapsed>>

totalVars == <<reported, base, steady>>

vars == <<cycleVars, query_rows, clockVars, totalVars>>

-----------------------------------------------------------------------------
(* Bounds of the model *)

MaxCommits == 2
MaxSample == 2
MaxPollCommits == 1
MaxInterval == 2
MaxMissed == 1

-----------------------------------------------------------------------------
(* Floats as rationals *)

Abs(x) == IF x < 0 THEN 0 - x ELSE x

RECURSIVE GCD(_, _)
GCD(a, b) == IF b = 0 THEN a ELSE GCD(b, a % b)

Rat(n, d) ==
    LET g == GCD(Abs(n), Abs(d))
        s == IF d < 0 THEN 0 - 1 ELSE 1
    IN  [num |-> (s * n) \div g, den |-> (s * d) \div g]

ZeroDivisionError == [num |-> 0, den |-> 0]

Float(n) == [num |-> n, den |-> 1]

FloatDiv(x, y) ==
    IF x.den = 0 \/ y.den = 0 \/ y.num = 0
    THEN ZeroDivisionError
    ELSE Rat(x.num * y.den, x.den * y.num)

FloatAdd(x, y) == Rat(x.num * y.den + y.num * x.den, x.den * y.den)

-----------------------------------------------------------------------------
(* Rows of distributed_plancache_summary and snapshots *)

GET_PLANCACHE_QUERY ==
    "select database_name, query_text, plan_hash, IFNULL(commits, 0) as commits, IFNULL(rowcount, 0) as rowcount, IFNULL(execution_time, 0) as execution_time, IFNULL(queued_time, 0) as queued_time, IFNULL(cpu_time, 0) as cpu_time, IFNULL(memory_use, 0) as memory_use from distributed_plancache_summary where plan_hash is not null"

PlanHashes == {"h1", "h2"}
SelfHash == "h0"
HashOrder == <<"h0", "h1", "h2">>

QueryTextOf(h) ==
    IF h = SelfHash THEN GET_PLANCACHE_QUERY
    ELSE IF h = "h1" THEN "select * from t where a = @"
    ELSE "insert into t values (@)"

\* The row of plan h with c commits; s scales the other cumulative counters.
Row(h, c, s) ==
    [plan_hash      |-> h,
     database_name  |-> "db",
     query_text     |-> QueryTextOf(h),
     commits        |-> c,
     rowcount       |-> 50 * s,
     execution_time |-> 7 * s,
     queued_time    |-> 3 * s,
     cpu_time       |-> 500 * s,
     memory_use     |-> 64 * s]

EmptyMap == [k \in {} |-> Row(SelfHash, 0, 0)]

DiffRowsOf(h) == {Row(h, c, s) : c \in 0..MaxCommits, s \in 0..MaxSample}

WellKeyed(snap) == \A k \in DOMAIN snap : snap[k].plan_hash = k

\* Snapshots handed to DiffPlanCache directly.
DiffSnapshots ==
    {g \in UNION {[S -> UNION {DiffRowsOf(h) : h \in S}] : S \in SUBSET PlanHashes} :
        WellKeyed(g)}

\* Rows the data source returns during polling: the other counters grow with
\* the commits.  The poller's own query is one plan of the plan cache.
PollRowsOf(h) ==
    IF h = SelfHash THEN {Row(h, 1, 1)}
    ELSE {Row(h, c, c) : c \in 0..MaxPollCommits}

\* The rows of the chosen plans in the order the data source returns them.
RowSeq(f) ==
    LET In(h) == h \in DOMAIN f
        hs == SelectSeq(HashOrder, In)
    IN  [i \in 1..Len(hs) |-> f[hs[i]]]

\* Results of conn.query(GET_PLANCACHE_QUERY) during polling.
QueryResults ==
    {RowSeq(f) : f \in
        {g \in UNION {[S -> UNION {PollRowsOf(h) : h \in S}] :
                        S \in SUBSET (PlanHashes \cup {SelfHash})} :
            WellKeyed(g)}}

QueryOutcomes ==
    {[raises |-> TRUE, rows |-> << >>]} \cup
    {[raises |-> FALSE, rows |-> r] : r \in QueryResults}

\* A plausible slip: the poller's own query is not filtered out.
GetPlanCache_Unfiltered(rows) ==
    LET keys == {rows[i].plan_hash : i \in 1..Len(rows)}
        Last(k) == CHOOSE i \in 1..Len(rows) :
                      /\ rows[i].plan_hash = k
                      /\ \A j \in 1..Len(rows) : rows[j].plan_hash = k => j <= i
    IN  [k \in keys |-> rows[Last(k)]]

GetPlanCache(rows) ==
    LET Kept(r) == r.query_text /= GET_PLANCACHE_QUERY
        kept == SelectSeq(rows, Kept)
        keys == {kept[i].plan_hash : i \in 1..Len(kept)}
        Last(k) == CHOOSE i \in 1..Len(kept) :
                      /\ kept[i].plan_hash = k
                      /\ \A j \in 1..Len(kept) : kept[j].plan_hash = k => j <= i
    IN  [k \in keys |-> kept[Last(k)]]

-----------------------------------------------------------------------------
(* Diff / normalize engine *)

CheckHasDataForAllColumns(entry) == entry

NormalizeDiffPlanCacheEntry(interval, database_name, query_text, commits, rowcount, cpu_time, execution_time, memory_use, queued_time) ==
    CheckHasDataForAllColumns(
        ("Database" :> database_name) @@
        ("Query" :> query_text) @@
        ("Executions/sec" :> FloatDiv(Float(commits), Float(interval))) @@
        ("RowCount/sec" :> FloatDiv(Float(rowcount), Float(interval))) @@
        ("CpuUtil" :>
            FloatDiv(FloatDiv(Float(cpu_time), Float(1000)), Float(interval))) @@
        ("ExecutionTime/query" :> FloatDiv(Float(execution_time), Float(commits))) @@
        ("Memory/query" :> FloatDiv(Float(memory_use), Float(commits))) @@
        ("QueuedTime/query" :> FloatDiv(Float(queued_time), Float(commits))))

RateFields == {"Executions/sec", "RowCount/sec", "CpuUtil",
               "ExecutionTime/query", "Memory/query", "QueuedTime/query"}

EntryRaises(entry) == \E f \in RateFields : entry[f] = ZeroDivisionError

\* A plausible slip: a plan unknown to the old snapshot is never reported.
IsIncluded_KnownOnly(new, old, key) ==
    IF key \notin DOMAIN old
    THEN FALSE
    ELSE new[key].commits - old[key].commits > 0

\* A plausible slip: a plan unknown to the old snapshot is reported even with
\* no commits.
IsIncluded_ZeroCommits(new, old, key) ==
    IF key \notin DOMAIN old
    THEN new[key].commits >= 0
    ELSE new[key].commits - old[key].commits > 0

\* A plausible slip: any change of the commit counter counts, a reset included.
IsIncluded_AnyChange(new, old, key) ==
    IF key \notin DOMAIN old
    THEN new[key].commits > 0
    ELSE new[key].commits - old[key].commits /= 0

\* The inclusion tests of the loop body (lines 69, 75 and 86).
IsIncluded(new, old, key) ==
    IF key \notin DOMAIN old
    THEN new[key].commits > 0
    ELSE new[key].commits - old[key].commits > 0

\* The counter arguments passed to NormalizeDiffPlanCacheEntry for an included key.
DiffArgs(new, old, key) ==
    LET n_ent == new[key] IN
    IF key \notin DOMAIN old
    THEN [key            |-> key,
          commits        |-> n_ent.commits,
          rowcount       |-> n_ent.rowcount,
          execution_time |-> n_ent.execution_time,
          cpu_time       |-> n_ent.cpu_time,
          memory_use     |-> n_ent.memory_use,
          queued_time    |-> n_ent.queued_time]
    ELSE LET o_ent == old[key] IN
         [key            |-> key,
          commits        |-> n_ent.commits - o_ent.commits,
          rowcount       |-> n_ent.rowcount - o_ent.rowcount,
          execution_time |-> n_ent.execution_time - o_ent.execution_time,
          cpu_time       |-> n_ent.cpu_time - o_ent.cpu_time,
          memory_use     |-> n_ent.memory_use - o_ent.memory_use,
          queued_time    |-> n_ent.queued_time - o_ent.queued_time]

\* A plausible slip: the arguments passed by position in the order the call
\* lists them (execution_time before cpu_time) instead of by keyword.
DiffEntry_Positional(new, old, interval, key) ==
    LET a == DiffArgs(new, old, key) IN
    NormalizeDiffPlanCacheEntry(interval, new[key].database_name,
        new[key].query_text, a.commits, a.rowcount, a.execution_time,
        a.cpu_time, a.memory_use, a.queued_time)

\* The call of NormalizeDiffPlanCacheEntry for an included key: the keyword
\* arguments bound to the parameters of the same name.
DiffEntry(new, old, interval, key) ==
    LET a == DiffArgs(new, old, key) IN
    NormalizeDiffPlanCacheEntry(interval, new[key].database_name,
        new[key].query_text, a.commits, a.rowcount, a.cpu_time,
        a.execution_time, a.memory_use, a.queued_time)

\* The orders in which the loop can visit the keys of new: the iteration order
\* of a dict, which depends on the interpreter and on the order of the rows.
KeyOrders(new) ==
    {order \in [1..Cardinality(DOMAIN new) -> DOMAIN new] :
        \A i, j \in DOMAIN order : order[i] = order[j] => i = j}

\* The calls the loop makes when it visits the keys of new in the given order:
\* the call of an included key is made when no call before it raised, so a
\* raising call is the last one.
NormalizeCalls(new, old, interval, order) ==
    LET Visited(h) == IsIncluded(new, old, h)
        keys == SelectSeq(order, Visited)
        Raises(i) == EntryRaises(DiffEntry(new, old, interval, keys[i]))
        Made(i) == \A j \in 1..(i - 1) : ~Raises(j)
    IN  {DiffArgs(new, old, keys[i]) : i \in {j \in 1..Len(keys) : Made(j)}}

\* A plausible slip: the entries of plans that left the plan cache carried over
\* from the old snapshot.
DiffPlanCache_Stale(new, old, interval) ==
    LET included == {k \in DOMAIN new : IsIncluded(new, old, k)}
        stale == {k \in DOMAIN old \ DOMAIN new : old[k].commits > 0}
        raised == \/ \E k \in included : EntryRaises(DiffEntry(new, old, interval, k))
                  \/ \E k \in stale : EntryRaises(DiffEntry(old, EmptyMap, interval, k))
    IN  [called |-> TRUE,
         raised |-> raised,
         value  |-> IF raised THEN EmptyMap
                    ELSE [k \in included \cup stale |->
                            IF k \in included THEN DiffEntry(new, old, interval, k)
                            ELSE DiffEntry(old, EmptyMap, interval, k)]]

DiffPlanCache(new, old, interval) ==
    LET included == {k \in DOMAIN new : IsIncluded(new, old, k)}
        raised == \E k \in included : EntryRaises(DiffEntry(new, old, interval, k))
    IN  [called |-> TRUE,
         raised |-> raised,
         value  |-> IF raised THEN EmptyMap
                    ELSE [k \in included |-> DiffEntry(new, old, interval, k)]]

NotCalled == [called |-> FALSE, raised |-> FALSE, value |-> EmptyMap]

-----------------------------------------------------------------------------
(* Memory status row: tsm_row.Value is a string, modelled as a sequence of
   one-character strings over the characters below. *)

Digits == {"0", "1", "2", "3", "4", "5", "6", "7", "8", "9"}

DigitVal(ch) ==
    CASE ch = "0" -> 0 [] ch = "1" -> 1 [] ch = "2" -> 2 [] ch = "3" -> 3
      [] ch = "4" -> 4 [] ch = "5" -> 5 [] ch = "6" -> 6 [] ch = "7" -> 7
      [] ch = "8" -> 8 [] OTHER -> 9

RECURSIVE Pow10(_)
Pow10(n) == IF n = 0 THEN 1 ELSE 10 * Pow10(n - 1)

RECURSIVE DigitsValue(_)
DigitsValue(ds) ==
    IF ds = << >> THEN 0
    ELSE 10 * DigitsValue(SubSeq(ds, 1, Len(ds) - 1)) + DigitVal(ds[Len(ds)])

\* A plausible slip: the whole Value handed to float(), the unit included.
SplitFirst_Whole(value) == value

\* Value.split(" ")[0]: the text before the first space (all of it if none).
SplitFirst(value) ==
    LET spaces == {i \in 1..Len(value) : value[i] = " "}
        first == CHOOSE i \in spaces : \A j \in spaces : i <= j
    IN  IF spaces = {} THEN value ELSE SubSeq(value, 1, first - 1)

\* float(token) for tokens of an optional sign, digits and at most one ".";
\* any other token over the modelled characters raises ValueError.
ParseFloat(token) ==
    LET signed == token /= << >> /\ Head(token) \in {"+", "-"}
        body == IF signed THEN Tail(token) ELSE token
        sign == IF signed /\ Head(token) = "-" THEN 0 - 1 ELSE 1
        dots == {i \in 1..Len(body) : body[i] = "."}
        IsDigit(ch) == ch \in Digits
        ds == SelectSeq(body, IsDigit)
        ok == /\ Cardinality(dots) <= 1
              /\ \A i \in 1..Len(body) : body[i] \in Digits \cup {"."}
              /\ ds /= << >>
        scale == IF dots = {} THEN 0
                 ELSE Len(body) - (CHOOSE i \in dots : TRUE)
    IN  [ok |-> ok,
         value |-> IF ok THEN Rat(sign * DigitsValue(ds), Pow10(scale))
                   ELSE Float(0)]

StatusValues ==
    { <<"2", "0", "4", "8", " ", "M", "B">>,
      <<"0", ".", "5", " ", "G", "B">>,
      <<"M", "B", " ", "7">>,
      << >> }

\* Outcomes of conn.get("show status like 'Total_server_memory'").
GetOutcomes ==
    {[raises |-> TRUE, Value |-> << >>]} \cup
    {[raises |-> FALSE, Value |-> v] : v \in StatusValues}

-----------------------------------------------------------------------------
(* DatabasePoller.poll *)

Step(op, signal, pc, value) ==
    [op |-> op, signal |-> signal, plancache |-> pc, value |-> value]

SetAlarmIn(interval) == Step("set_alarm_in", "", EmptyMap, Float(interval))
Query == Step("query", "", EmptyMap, Float(0))
Store == Step("store", "", EmptyMap, Float(0))
Get == Step("get", "", EmptyMap, Float(0))
EmitPlancache(diff) == Step("emit", "plancache_changed", diff, Float(0))
EmitCpuUtil(v) == Step("emit", "cpu_util_changed", EmptyMap, v)
EmitMemUsage(v) == Step("emit", "mem_usage_changed", EmptyMap, v)

\* A plausible slip: the first record's CpuUtil left out of the sum.
RECURSIVE SumCpuUtil_SkipOne(_)
SumCpuUtil_SkipOne(diff) ==
    IF DOMAIN diff = {} THEN Float(0)
    ELSE LET k == CHOOSE x \in DOMAIN diff : TRUE
             rest == [y \in DOMAIN diff \ {k} |-> diff[y]]
         IN  IF rest = EmptyMap THEN Float(0)
             ELSE FloatAdd(diff[k]["CpuUtil"], SumCpuUtil_SkipOne(rest))

\* sum(pe.CpuUtil for pe in diff_plancache.values())
RECURSIVE SumCpuUtil(_)
SumCpuUtil(diff) ==
    IF DOMAIN diff = {} THEN Float(0)
    ELSE LET k == CHOOSE x \in DOMAIN diff : TRUE
             rest == [y \in DOMAIN diff \ {k} |-> diff[y]]
         IN  FloatAdd(diff[k]["CpuUtil"], SumCpuUtil(rest))

\* The exception that ends the cycle, "none" if it runs to its last line.
PollError(q, d, g) ==
    IF q.raises THEN "QueryError"
    ELSE IF d.raised THEN "ZeroDivisionError"
    ELSE IF g.raises THEN "GetError"
    ELSE IF ~ParseFloat(SplitFirst(g.Value)).ok THEN "ValueError"
    ELSE "none"

\* A plausible slip: the memory usage emitted ahead of the plan-cache events.
PollTrace_MemFirst(interval, q, d, g) ==
    <<SetAlarmIn(interval), Query>> \o
    (IF q.raises \/ d.raised THEN << >>
     ELSE <<Get>> \o
          (IF g.raises \/ ~ParseFloat(SplitFirst(g.Value)).ok THEN << >>
           ELSE <<EmitMemUsage(ParseFloat(SplitFirst(g.Value)).value),
                  EmitPlancache(d.value), Store,
                  EmitCpuUtil(SumCpuUtil(d.value))>>))

\* A plausible slip: the memory status read and parsed before anything is emitted.
PollTrace_SampleFirst(interval, q, d, g) ==
    <<SetAlarmIn(interval), Query>> \o
    (IF q.raises \/ d.raised THEN << >>
     ELSE <<Get>> \o
          (IF g.raises \/ ~ParseFloat(SplitFirst(g.Value)).ok THEN << >>
           ELSE <<EmitPlancache(d.value), Store,
                  EmitCpuUtil(SumCpuUtil(d.value)),
                  EmitMemUsage(ParseFloat(SplitFirst(g.Value)).value)>>))

\* A plausible slip: the next invocation scheduled as the last statement.
PollTrace_AlarmLast(interval, q, d, g) ==
    <<Query>> \o
    (IF q.raises \/ d.raised THEN << >>
     ELSE <<EmitPlancache(d.value), Store, EmitCpuUtil(SumCpuUtil(d.value)), Get>> \o
          (IF g.raises \/ ~ParseFloat(SplitFirst(g.Value)).ok THEN << >>
           ELSE <<EmitMemUsage(ParseFloat(SplitFirst(g.Value)).value),
                  SetAlarmIn(interval)>>))

\* A plausible slip: the retained snapshot replaced as the last statement.
PollTrace_StoreLast(interval, q, d, g) ==
    <<SetAlarmIn(interval), Query>> \o
    (IF q.raises \/ d.raised THEN << >>
     ELSE <<EmitPlancache(d.value), EmitCpuUtil(SumCpuUtil(d.value)), Get>> \o
          (IF g.raises \/ ~ParseFloat(SplitFirst(g.Value)).ok THEN << >>
           ELSE <<EmitMemUsage(ParseFloat(SplitFirst(g.Value)).value), Store>>))

\* The side effects of one cycle in program order, up to the raising statement.
PollTrace(interval, q, d, g) ==
    <<SetAlarmIn(interval), Query>> \o
    (IF q.raises \/ d.raised THEN << >>
     ELSE <<EmitPlancache(d.value), Store, EmitCpuUtil(SumCpuUtil(d.value)), Get>> \o
          (IF g.raises \/ ~ParseFloat(SplitFirst(g.Value)).ok THEN << >>
           ELSE <<EmitMemUsage(ParseFloat(SplitFirst(g.Value)).value)>>))

\* A plausible slip: a failed fetch handled by retaining an empty snapshot.
PollRetained_Reset(retained, new, q, d) ==
    IF q.raises THEN EmptyMap ELSE IF d.raised THEN retained ELSE new

\* A plausible slip: line 119 left out, the constructor's snapshot retained.
PollRetained_Never(retained, new, q, d) == retained

\* self.plancache after the cycle: line 119 runs only if lines 114-118 did not raise.
PollRetained(retained, new, q, d) ==
    IF q.raises \/ d.raised THEN retained ELSE new

NoRow == [read |-> FALSE, Value |-> << >>]

\* tsm_row of the cycle: bound only if line 125 is reached and returns.
PollStatusRow(q, d, g) ==
    IF q.raises \/ d.raised \/ g.raises THEN NoRow
    ELSE [read |-> TRUE, Value |-> g.Value]

\* The number of loop.set_alarm_in calls of a cycle.
AlarmsSet(t) == Cardinality({i \in 1..Len(t) : t[i].op = "set_alarm_in"})

\* One invocation of poll by the event loop, for the outcomes q of conn.query
\* and g of conn.get.
PollCycle(q, g) ==
    /\ alarms > 0
    /\ \E new \in {IF q.raises THEN EmptyMap ELSE GetPlanCache(q.rows)} :
         \E d \in {IF q.raises THEN NotCalled
                   ELSE DiffPlanCache(new, plancache, update_interval)} :
            /\ new_plancache' = new
            /\ old_plancache' = IF q.raises THEN EmptyMap ELSE plancache
            /\ diff_plancache' = d
            /\ \E order \in KeyOrders(new) :
                  normalize_calls' =
                      IF q.raises THEN {}
                      ELSE NormalizeCalls(new, plancache, update_interval, order)
            /\ trace' = PollTrace(update_interval, q, d, g)
            /\ error' = PollError(q, d, g)
            /\ plancache' = PollRetained(plancache, new, q, d)
            /\ tsm_row' = PollStatusRow(q, d, g)
            /\ alarms' = alarms - 1 + AlarmsSet(trace')
            /\ last_fetched' = IF q.raises THEN last_fetched ELSE new
            /\ UNCHANGED <<update_interval, query_rows>>

Poll ==
    \E q \in QueryOutcomes, g \in GetOutcomes :
        /\ PollCycle(q, g)
        /\ UNCHANGED <<clockVars, totalVars>>

Intervals == (0 - 1)..MaxInterval

NoTotals == [k \in PlanHashes |-> 0]

\* DatabasePoller.__init__: the state after a construction that did not raise,
\* with the first invocation of poll scheduled by the caller.
InitCycle ==
    /\ update_interval \in Intervals
    /\ plancache \in {GetPlanCache(r) : r \in QueryResults}
    /\ last_fetched = plancache
    /\ old_plancache = EmptyMap
    /\ new_plancache = EmptyMap
    /\ diff_plancache = NotCalled
    /\ normalize_calls = {}
    /\ trace = << >>
    /\ error = "none"
    /\ tsm_row = NoRow
    /\ alarms = 1
    /\ query_rows = << >>

Init ==
    /\ InitCycle
    /\ age = 0
    /\ elapsed = 0
    /\ reported = NoTotals
    /\ base = NoTotals
    /\ steady = [k \in PlanHashes |-> FALSE]

Next == Poll

Spec == Init /\ [][Next]_vars

-----------------------------------------------------------------------------
(* The poll cycle with the history of the fetch times.  Time is counted in
   the best case for the rates: every invocation of poll runs exactly one
   timer period after the previous one set the alarm (the first one a period
   after the construction) and a fetch takes no time.  age counts the polls
   since the retained snapshot was fetched that did not replace it, up to
   MaxMissed: the value MaxMissed stands for MaxMissed polls or more, and
   elapsed is then the least time that can have passed. *)

\* The delay after which an alarm set with loop.set_alarm_in(interval) is due.
Period(interval) == IF interval > 0 THEN interval ELSE 0

Stored(t) == \E i \in 1..Len(t) : t[i].op = "store"

PollClocked ==
    \E q \in QueryOutcomes, g \in GetOutcomes :
        /\ PollCycle(q, g)
        /\ elapsed' = IF q.raises THEN 0
                      ELSE (age + 1) * Period(update_interval)
        /\ age' = IF Stored(trace') THEN 0
                  ELSE IF age < MaxMissed THEN age + 1
                  ELSE MaxMissed
        /\ UNCHANGED totalVars

NextClock == PollClocked

SpecClock == Init /\ [][NextClock]_vars

-----------------------------------------------------------------------------
(* The poll cycle with the history of the commit deltas reported per plan. *)

\* Executions/sec times interval of the record of plan k, 0 if it has none.
ReportedCommits(value, interval, k) ==
    IF k \in DOMAIN value
    THEN (value[k]["Executions/sec"].num * interval)
            \div value[k]["Executions/sec"].den
    ELSE 0

InitTotals ==
    /\ InitCycle
    /\ age = 0
    /\ elapsed = 0
    /\ reported = NoTotals
    /\ base = [k \in PlanHashes |->
                IF k \in DOMAIN plancache THEN plancache[k].commits ELSE 0]
    /\ steady = [k \in PlanHashes |-> k \in DOMAIN plancache]

PollCounted ==
    \E q \in QueryOutcomes, g \in GetOutcomes :
        /\ PollCycle(q, g)
        /\ LET Steady(k) ==
                  /\ steady[k]
                  /\ diff_plancache'.called
                  /\ ~diff_plancache'.raised
                  /\ k \in DOMAIN new_plancache'
                  /\ new_plancache'[k].commits >= last_fetched[k].commits
           IN  /\ steady' = [k \in PlanHashes |-> Steady(k)]
               /\ base' = [k \in PlanHashes |-> IF Steady(k) THEN base[k] ELSE 0]
               /\ reported' = [k \in PlanHashes |->
                    IF Steady(k)
                    THEN reported[k] + ReportedCommits(diff_plancache'.value,
                                                       update_interval, k)
                    ELSE 0]
        /\ UNCHANGED clockVars

NextTotals == PollCounted

SpecTotals == InitTotals /\ [][NextTotals]_vars

-----------------------------------------------------------------------------
(* DiffPlanCache as a pure function: the arguments are drawn in the initial
   state and one step applies the function to them. *)

\* The variables a specification of one function on its own does not use.
Unused ==
    /\ plancache = EmptyMap
    /\ last_fetched = EmptyMap
    /\ trace = << >>
    /\ error = "none"
    /\ tsm_row = NoRow
    /\ alarms = 0
    /\ age = 0
    /\ elapsed = 0
    /\ reported = NoTotals
    /\ base = NoTotals
    /\ steady = [k \in PlanHashes |-> FALSE]

InitDiff ==
    /\ update_interval \in Intervals
    /\ new_plancache \in DiffSnapshots
    /\ old_plancache \in DiffSnapshots
    /\ diff_plancache = NotCalled
    /\ normalize_calls = {}
    /\ query_rows = << >>
    /\ Unused

CallDiffPlanCache ==
    /\ ~diff_plancache.called
    /\ diff_plancache' = DiffPlanCache(new_plancache, old_plancache, update_interval)
    /\ \E order \in KeyOrders(new_plancache) :
          normalize_calls' = NormalizeCalls(new_plancache, old_plancache,
                                            update_interval, order)
    /\ UNCHANGED <<update_interval, plancache, old_plancache, new_plancache,
                   trace, error, tsm_row, alarms, last_fetched, query_rows,
                   clockVars, totalVars>>

NextDiff == CallDiffPlanCache

SpecDiff == InitDiff /\ [][NextDiff]_vars

-----------------------------------------------------------------------------
(* GetPlanCache as a pure function: the rows conn.query returns are drawn in
   the initial state and one step applies the function to them. *)

\* Rows of any plan hash, with the plan's own text or the text of the
\* poller's query.
FetchRowsOf(h) ==
    {[Row(h, c, c) EXCEPT !.query_text = t] :
        c \in 0..MaxPollCommits, t \in {QueryTextOf(h), GET_PLANCACHE_QUERY}}

FetchRows == UNION {FetchRowsOf(h) : h \in PlanHashes \cup {SelfHash}}

\* Row sequences in any order, the plan hashes unique among the rows.
FetchResults ==
    {r \in UNION {[1..n -> FetchRows] : n \in 0..Len(HashOrder)} :
        \A i, j \in 1..Len(r) : r[i].plan_hash = r[j].plan_hash => i = j}

InitFetch ==
    /\ query_rows \in FetchResults
    /\ update_interval = 1
    /\ new_plancache = EmptyMap
    /\ old_plancache = EmptyMap
    /\ diff_plancache = NotCalled
    /\ normalize_calls = {}
    /\ Unused

CallGetPlanCache ==
    /\ trace = << >>
    /\ trace' = <<Query>>
    /\ new_plancache' = GetPlanCache(query_rows)
    /\ UNCHANGED <<update_interval, plancache, old_plancache, diff_plancache,
                   normalize_calls, error, tsm_row, alarms, last_fetched,
                   query_rows, clockVars, totalVars>>

NextFetch == CallGetPlanCache

SpecFetch == InitFetch /\ [][NextFetch]_vars

-----------------------------------------------------------------------------
(* Properties *)

\* r is the quotient n / d.
IsQuotient(r, n, d) == r.den > 0 /\ r.num * d = n * r.den

\* new - old of counter f for key k, the raw new counter for a plan absent from old.
Delta(k, f) ==
    IF k \in DOMAIN old_plancache
    THEN new_plancache[k][f] - old_plancache[k][f]
    ELSE new_plancache[k][f]

Returned == diff_plancache.called /\ ~diff_plancache.raised

Result == diff_plancache.value

\* C1: a plan present in both snapshots whose commit counter did not grow
\* (unchanged or reset) is not a key of the result of DiffPlanCache, and no
\* record is computed for it.
C1_CommitFilter ==
    diff_plancache.called =>
        \A k \in DOMAIN new_plancache \cap DOMAIN old_plancache :
            new_plancache[k].commits - old_plancache[k].commits <= 0 =>
                /\ k \notin DOMAIN Result
                /\ \A c \in normalize_calls : c.key /= k

C1_Witness ==
    /\ Returned
    /\ \E k \in DOMAIN new_plancache \cap DOMAIN old_plancache :
          /\ new_plancache[k].commits - old_plancache[k].commits < 0
          /\ k \notin DOMAIN Result
    /\ \E k \in DOMAIN new_plancache \cap DOMAIN old_plancache :
          /\ new_plancache[k].commits = old_plancache[k].commits
          /\ new_plancache[k].commits > 0

\* C2: a plan present in new and absent from old is left out when its commits
\* are 0; when they are positive the call (which returns for every interval
\* other than 0) has it in the result, with the identity fields passed through
\* and every rate computed from the raw new counters.
C2_NewEntry ==
    diff_plancache.called =>
        /\ update_interval /= 0 => ~diff_plancache.raised
        /\ \A k \in DOMAIN new_plancache \ DOMAIN old_plancache :
              LET n == new_plancache[k] IN
              /\ n.commits = 0 => k \notin DOMAIN Result
              /\ (n.commits > 0 /\ ~diff_plancache.raised) =>
                    /\ k \in DOMAIN Result
                    /\ Result[k]["Database"] = n.database_name
                    /\ Result[k]["Query"] = n.query_text
                    /\ IsQuotient(Result[k]["Executions/sec"], n.commits, update_interval)
                    /\ IsQuotient(Result[k]["RowCount/sec"], n.rowcount, update_interval)
                    /\ IsQuotient(Result[k]["CpuUtil"], n.cpu_time, 1000 * update_interval)
                    /\ IsQuotient(Result[k]["ExecutionTime/query"], n.execution_time, n.commits)
                    /\ IsQuotient(Result[k]["Memory/query"], n.memory_use, n.commits)
                    /\ IsQuotient(Result[k]["QueuedTime/query"], n.queued_time, n.commits)

C2_Witness ==
    /\ Returned
    /\ \E k \in DOMAIN new_plancache \ DOMAIN old_plancache :
          new_plancache[k].commits = 0 /\ k \notin DOMAIN Result
    /\ \E k \in DOMAIN new_plancache \ DOMAIN old_plancache :
          /\ new_plancache[k].commits > 1
          /\ new_plancache[k].rowcount > 0
          /\ k \in DOMAIN Result

\* C3: with interval > 0 every record of the result has Executions/sec =
\* dCommits / interval, RowCount/sec = dRowcount / interval and CpuUtil =
\* dCpuTime / 1000 / interval, each d the delta of the same-named counter.
C3_RateCorrectness ==
    (diff_plancache.called /\ update_interval > 0) =>
        /\ ~diff_plancache.raised
        /\ \A k \in DOMAIN Result :
              /\ IsQuotient(Result[k]["Executions/sec"], Delta(k, "commits"), update_interval)
              /\ IsQuotient(Result[k]["RowCount/sec"], Delta(k, "rowcount"), update_interval)
              /\ IsQuotient(Result[k]["CpuUtil"], Delta(k, "cpu_time"), 1000 * update_interval)

C3_Witness ==
    /\ Returned
    /\ update_interval > 1
    /\ \E k \in DOMAIN Result \cap DOMAIN old_plancache :
          /\ Delta(k, "commits") > 0
          /\ Delta(k, "rowcount") > 0
          /\ Result[k]["RowCount/sec"] = [num |-> 25, den |-> 1]
          /\ Result[k]["CpuUtil"] = [num |-> 1, den |-> 4]
    /\ \E k \in DOMAIN Result : k \notin DOMAIN old_plancache

\* C4: NormalizeDiffPlanCacheEntry is only ever called with commits > 0, so no
\* division by a zero commit delta happens, and every record of the result has
\* ExecutionTime/query, Memory/query and QueuedTime/query equal to the delta of
\* its counter divided by the commit delta.
C4_PerQueryAverages ==
    diff_plancache.called =>
        /\ \A c \in normalize_calls : c.commits > 0
        /\ diff_plancache.raised => update_interval = 0
        /\ \A k \in DOMAIN Result :
              /\ Delta(k, "commits") /= 0
              /\ IsQuotient(Result[k]["ExecutionTime/query"],
                            Delta(k, "execution_time"), Delta(k, "commits"))
              /\ IsQuotient(Result[k]["Memory/query"],
                            Delta(k, "memory_use"), Delta(k, "commits"))
              /\ IsQuotient(Result[k]["QueuedTime/query"],
                            Delta(k, "queued_time"), Delta(k, "commits"))

C4_Witness ==
    /\ Returned
    /\ \E k \in DOMAIN Result \cap DOMAIN old_plancache :
          /\ old_plancache[k].execution_time > 0
          /\ Delta(k, "commits") > 1
          /\ Delta(k, "execution_time") > 0
    /\ \E k \in DOMAIN new_plancache \cap DOMAIN old_plancache :
          Delta(k, "commits") = 0 /\ k \notin DOMAIN Result

\* C9: a plan present in old and absent from new is not a key of the result,
\* no record is computed for it and it causes no error; the keys of the result
\* are a subset of the keys of the new snapshot.
C9_DisappearanceSilent ==
    diff_plancache.called =>
        /\ DOMAIN Result \subseteq DOMAIN new_plancache
        /\ \A k \in DOMAIN old_plancache \ DOMAIN new_plancache :
              /\ k \notin DOMAIN Result
              /\ \A c \in normalize_calls : c.key /= k
        /\ diff_plancache.raised => update_interval = 0 /\ normalize_calls /= {}
        /\ DOMAIN new_plancache = {} => ~diff_plancache.raised /\ Result = EmptyMap

C9_Witness ==
    /\ Returned
    /\ \E k \in DOMAIN old_plancache \ DOMAIN new_plancache :
          old_plancache[k].commits > 0
    /\ DOMAIN Result /= {}

\* C10: with non-negative counters and interval > 0 every rate of every record
\* of the result is >= 0.
C10_NoNegativeRate ==
    (Returned /\ update_interval > 0) =>
        \A k \in DOMAIN Result : \A f \in RateFields : Result[k][f].num >= 0

-----------------------------------------------------------------------------
(* Properties of the poll cycle *)

IsEmit(s) == s.op = "emit"

Emitted == SelectSeq(trace, IsEmit)

Signals == [i \in 1..Len(Emitted) |-> Emitted[i].signal]

EmittedSignals == {Signals[i] : i \in 1..Len(Signals)}

SignalOrder == <<"plancache_changed", "cpu_util_changed", "mem_usage_changed">>

RECURSIVE CpuDenProduct(_)
CpuDenProduct(m) ==
    IF DOMAIN m = {} THEN 1
    ELSE LET k == CHOOSE x \in DOMAIN m : TRUE
         IN  m[k]["CpuUtil"].den * CpuDenProduct([y \in DOMAIN m \ {k} |-> m[y]])

\* The sum over the records of m of CpuUtil scaled by D, a multiple of every
\* denominator.
RECURSIVE CpuScaledSum(_, _)
CpuScaledSum(m, D) ==
    IF DOMAIN m = {} THEN 0
    ELSE LET k == CHOOSE x \in DOMAIN m : TRUE
         IN  m[k]["CpuUtil"].num * (D \div m[k]["CpuUtil"].den)
               + CpuScaledSum([y \in DOMAIN m \ {k} |-> m[y]], D)

\* C5: the value emitted with cpu_util_changed is the sum of CpuUtil over the
\* records of the mapping emitted with plancache_changed in the same cycle,
\* which is the cycle's diff; it is 0 when that mapping is empty.
C5_TotalCpuUtil ==
    \A i \in 1..Len(Emitted) :
        Emitted[i].signal = "cpu_util_changed" =>
            /\ i = 2
            /\ Emitted[1].signal = "plancache_changed"
            /\ Emitted[1].plancache = diff_plancache.value
            /\ LET m == Emitted[1].plancache
                   D == CpuDenProduct(m)
                   v == Emitted[i].value
               IN  /\ v.den > 0
                   /\ v.num * D = v.den * CpuScaledSum(m, D)
                   /\ m = EmptyMap => v.num = 0

C5_Witness ==
    /\ Len(Emitted) >= 2
    /\ Emitted[2].signal = "cpu_util_changed"
    /\ Cardinality(DOMAIN Emitted[1].plancache) = 2
    /\ Emitted[2].value.num > 0
    /\ \A k \in DOMAIN Emitted[1].plancache :
          Emitted[1].plancache[k]["CpuUtil"] /= Emitted[2].value

\* C6: a cycle that ends without an exception emits plancache_changed,
\* cpu_util_changed and mem_usage_changed once each, in that order; the events
\* of any cycle are an initial part of that order.
C6_EmissionOrder ==
    /\ (error = "none" /\ trace /= << >>) => Signals = SignalOrder
    /\ Len(Signals) <= 3
    /\ \A i \in 1..Len(Signals) : Signals[i] = SignalOrder[i]

C6_Witness ==
    /\ error = "none"
    /\ Signals = SignalOrder
    /\ DOMAIN Emitted[1].plancache /= {}

\* C7: a cycle whose plan-cache fetch fails emits no event and leaves the
\* retained snapshot as it was; every diff is made against the snapshot
\* retained when the cycle began.
C7_FetchFailureRetains ==
    [][/\ error' = "QueryError" =>
            /\ plancache' = plancache
            /\ ~diff_plancache'.called
            /\ \A i \in 1..Len(trace') : trace'[i].op /= "emit"
       /\ diff_plancache'.called => old_plancache' = plancache]_vars

C7_Witness ==
    /\ error = "QueryError"
    /\ DOMAIN plancache /= {}
    /\ Len(trace) = 2
    /\ Signals = << >>

\* C8 as stated: a memory-status failure does not keep plancache_changed and
\* cpu_util_changed from being emitted, and a plan-cache fetch failure does not
\* keep mem_usage_changed from being emitted.
C8_Independent ==
    /\ error \in {"GetError", "ValueError"} =>
          {"plancache_changed", "cpu_util_changed"} \subseteq EmittedSignals
    /\ error = "QueryError" => "mem_usage_changed" \in EmittedSignals

\* C8 amended: a memory-status failure does not keep plancache_changed and
\* cpu_util_changed from being emitted; a plan-cache fetch failure does keep
\* mem_usage_changed from being emitted.
C8_MemoryFailureLocal ==
    /\ error \in {"GetError", "ValueError"} =>
          /\ Signals = <<"plancache_changed", "cpu_util_changed">>
          /\ Emitted[1].plancache = diff_plancache.value
          /\ plancache = new_plancache
    /\ error = "QueryError" => "mem_usage_changed" \notin EmittedSignals

C8_Witness ==
    /\ error = "ValueError"
    /\ Signals = <<"plancache_changed", "cpu_util_changed">>
    /\ DOMAIN Emitted[1].plancache /= {}

-----------------------------------------------------------------------------
(* Degenerate intervals, scheduling and the retained snapshot *)

\* C11: a call of DiffPlanCache with interval <= 0 ends in an error and
\* returns no record.
C11_DegenerateIntervalFails ==
    (diff_plancache.called /\ update_interval <= 0) =>
        diff_plancache.raised /\ Result = EmptyMap

OpsAt(ops) == {i \in 1..Len(trace) : trace[i].op \in ops}

\* C13 as stated: the next invocation is scheduled only after the fetch and
\* the emissions of the cycle.
C13_ScheduledAfterEmission ==
    \A i \in OpsAt({"set_alarm_in"}) :
        \A j \in OpsAt({"query", "emit", "get"}) : j < i

\* C13 amended: the next invocation is scheduled before the fetch and before
\* every emission of the cycle.
C13_ScheduledBeforeFetch ==
    \A j \in OpsAt({"query", "emit", "store", "get"}) :
        \E i \in OpsAt({"set_alarm_in"}) : i < j

C13_Witness ==
    /\ Len(trace) = 7
    /\ trace[1].op = "set_alarm_in"
    /\ trace[7].op = "emit"

\* C14: every cycle, also one ended by an exception, schedules exactly one
\* next invocation, as its first action and with the update interval as the
\* delay; after every cycle exactly one invocation of poll is scheduled.
C14_RearmedFirst ==
    /\ alarms = 1
    /\ trace /= << >> =>
          /\ trace[1] = SetAlarmIn(update_interval)
          /\ OpsAt({"set_alarm_in"}) = {1}
          /\ trace[2].op = "query"

C14_Witness ==
    /\ error \in {"QueryError", "GetError"}
    /\ alarms = 1
    /\ OpsAt({"set_alarm_in"}) = {1}

\* C17: the value emitted with mem_usage_changed is the number of the leading
\* space-separated token of the Value read in the same cycle, whatever the
\* snapshots are: "2048 MB" gives 2048.0 and "0.5 GB" gives 0.5; a Value with
\* no such number emits nothing.
C17_MemUsageParsed ==
    LET mem == {i \in 1..Len(Emitted) : Emitted[i].signal = "mem_usage_changed"}
        Is(n, d) == \E i \in mem : Emitted[i].value = [num |-> n, den |-> d]
    IN  /\ (tsm_row.read /\ tsm_row.Value = <<"2", "0", "4", "8", " ", "M", "B">>)
              => Is(2048, 1)
        /\ (tsm_row.read /\ tsm_row.Value = <<"0", ".", "5", " ", "G", "B">>)
              => Is(1, 2)
        /\ mem /= {} =>
              /\ tsm_row.read
              /\ tsm_row.Value /= << >>
              /\ tsm_row.Value[1] \in Digits
        /\ (tsm_row.read /\ (tsm_row.Value = << >> \/ tsm_row.Value[1] = "M"))
              => mem = {} /\ error = "ValueError"

C17_Witness ==
    /\ tsm_row.Value = <<"2", "0", "4", "8", " ", "M", "B">>
    /\ Len(Emitted) = 3
    /\ Emitted[3].value = [num |-> 2048, den |-> 1]
    /\ DOMAIN old_plancache /= {}

\* C18 as stated: the retained snapshot is replaced after all three events
\* have been emitted, and a cycle that does not emit mem_usage_changed leaves
\* it as it was.
C18_StoredLast ==
    /\ \A i \in OpsAt({"store"}) :
          \A s \in {"plancache_changed", "cpu_util_changed", "mem_usage_changed"} :
              \E j \in 1..(i - 1) : trace[j].op = "emit" /\ trace[j].signal = s
    /\ (diff_plancache.called /\ "mem_usage_changed" \notin EmittedSignals)
          => plancache = old_plancache

\* C18 amended: the retained snapshot is replaced right after
\* plancache_changed has been emitted and before cpu_util_changed and
\* mem_usage_changed; a cycle whose diff raises leaves it as it was, and a
\* cycle whose memory sampling fails has replaced it.
C18_StoredAfterPlancacheEmit ==
    /\ \A i \in OpsAt({"store"}) :
          /\ i > 1
          /\ trace[i - 1].op = "emit"
          /\ trace[i - 1].signal = "plancache_changed"
          /\ \A j \in OpsAt({"emit"}) : j /= i - 1 => j > i
          /\ plancache = new_plancache
    /\ (diff_plancache.called /\ OpsAt({"store"}) = {}) =>
          /\ diff_plancache.raised
          /\ plancache = old_plancache
    /\ error \in {"GetError", "ValueError"} => OpsAt({"store"}) /= {}

C18_Witness ==
    /\ error = "GetError"
    /\ OpsAt({"store"}) /= {}
    /\ plancache = new_plancache
    /\ plancache /= old_plancache

\* C19: after a cycle whose fetch and diff succeed the retained snapshot is
\* the snapshot fetched in that cycle, and every diff compares the new snapshot
\* with the snapshot of the most recent earlier fetch that succeeded.
C19_WholesaleReplace ==
    [][diff_plancache'.called =>
          /\ ~diff_plancache'.raised => plancache' = new_plancache'
          /\ old_plancache' = last_fetched]_vars

\* C16: the snapshot returned by GetPlanCache maps plan_hash to row for exactly
\* the rows whose query_text differs from the text of the poller's own query.
C16_SelfFiltered ==
    trace = <<Query>> =>
        /\ \A i \in 1..Len(query_rows) :
              LET r == query_rows[i] IN
              IF r.query_text = GET_PLANCACHE_QUERY
              THEN r.plan_hash \notin DOMAIN new_plancache
              ELSE /\ r.plan_hash \in DOMAIN new_plancache
                   /\ new_plancache[r.plan_hash] = r
        /\ \A k \in DOMAIN new_plancache :
              \E i \in 1..Len(query_rows) :
                  query_rows[i].plan_hash = k /\ query_rows[i] = new_plancache[k]

C16_Witness ==
    /\ trace = <<Query>>
    /\ Len(query_rows) = 3
    /\ query_rows[2].query_text = GET_PLANCACHE_QUERY
    /\ query_rows[2].plan_hash /= SelfHash
    /\ Cardinality(DOMAIN new_plancache) = 1

\* C12: with a positive update interval, the interval the rates of a cycle are
\* divided by is the time elapsed between the fetch of the old snapshot and
\* the fetch of the new one.
C12_IntervalIsElapsed ==
    (diff_plancache.called /\ ~diff_plancache.raised /\ update_interval > 0)
        => elapsed = update_interval

\* C20: for a plan present in every fetched snapshot with commits that never
\* decreased, over cycles whose fetch and diff all succeeded, the commit deltas
\* reported since the construction add up to its commits in the last fetched
\* snapshot minus its commits in the constructor's snapshot.
C20_ReportedOnce ==
    \A k \in PlanHashes :
        steady[k] =>
            /\ k \in DOMAIN last_fetched
            /\ reported[k] = last_fetched[k].commits - base[k]

C20_Witness ==
    /\ steady["h1"]
    /\ reported["h1"] > 0
    /\ diff_plancache.called
    /\ "h1" \notin DOMAIN Result
    /\ "h2" \in DOMAIN Result

====
